---- MODULE Spec2Model ----
(***************************************************************************)
(* LIONZ resources: the mask validation rule has_label_above_threshold     *)
(* (border flush, connected-component size filter, all-or-nothing flush,   *)
(* in-place rewrite of the mask file), the RULES / TRACER_WORKFLOWS tables *)
(* and the workflow fallback controller that consumes them.                *)
(*                                                                         *)
(* A volume is a numpy array in (z, y, x) order.  An array is represented  *)
(* by its shape and by its values on a finite set of tracked voxels (the   *)
(* DOMAIN of the function); every voxel of the shape that is not tracked   *)
(* is 0 in the input.  The code never turns a 0 voxel into a non-zero one  *)
(* (slice assignment of 0, multiplication by a boolean mask, zeros_like)   *)
(* and a 0 voxel belongs to no component, so untracked voxels stay 0 and   *)
(* influence nothing.  Voxel values are class labels 0..MaxLabel.          *)
(***************************************************************************)
EXTENDS Integers, Sequences, FiniteSets, TLC

VARIABLES files, call, cfg, ctl, log

vars == <<files, call, cfg, ctl, log>>

\* ------------------------------------------------------------------ bounds
MaxLabel == 2
MaxThreshold == 2
MaxWorkflows == 2
MaxBlob == 11

\* ---------------------------------------------------------------- helpers
Min(a, b) == IF a < b THEN a ELSE b
Max(a, b) == IF a > b THEN a ELSE b
Abs(a) == IF a < 0 THEN -a ELSE a

\* constants.MARGIN_SCALING_FACTOR
MARGIN_SCALING_FACTOR == 3

\* ------------------------------------------------------ python slicing
\* a[:m] on an axis of length n selects 0 .. SliceStop(n, m) - 1
SliceStop(n, m) == IF m < 0 THEN Max(n + m, 0) ELSE Min(m, n)

\* a[-m:] on an axis of length n selects SliceStart(n, m) .. n - 1
\* (the start is -m: counted from the end when negative, from 0 otherwise,
\*  so -0 is 0 and the slice is the whole axis)
SliceStart(n, m) == IF -m < 0 THEN Max(n - m, 0) ELSE Min(-m, n)

\* voxel v is hit by one of the six slice assignments
InMargin(v, shape, margin_padding) ==
    \E ax \in 1..3 :
        \/ v[ax] < SliceStop(shape[ax], margin_padding)
        \/ v[ax] >= SliceStart(shape[ax], margin_padding)

\* mask_array[:m,:,:] = 0 ... mask_array[:,:,-m:] = 0
BorderFlush(mask_array, shape, margin_padding) ==
    [v \in DOMAIN mask_array |->
        IF InMargin(v, shape, margin_padding) THEN 0 ELSE mask_array[v]]

\* ------------------------------------------- scipy.ndimage.label(input)
\* structure=None: generate_binary_structure(3, 1), the 6 face neighbours
Structure26(u, v) ==
    /\ u # v
    /\ \A ax \in 1..3 : Abs(u[ax] - v[ax]) <= 1

Structure(u, v) ==
    Abs(u[1] - v[1]) + Abs(u[2] - v[2]) + Abs(u[3] - v[3]) = 1

RECURSIVE Grow(_, _)
Grow(S, comp) ==
    LET nxt == comp \cup {v \in S : \E u \in comp : Structure(u, v)}
    IN  IF nxt = comp THEN comp ELSE Grow(S, nxt)

\* raster (C) order of the voxels: z, then y, then x
RasterLess(u, v) ==
    \/ u[1] < v[1]
    \/ u[1] = v[1] /\ u[2] < v[2]
    \/ u[1] = v[1] /\ u[2] = v[2] /\ u[3] < v[3]

FirstVoxel(comp) == CHOOSE u \in comp : \A w \in comp : u = w \/ RasterLess(u, w)

\* label(mask_array > 0): [labeled_array, num_features]; components are
\* numbered 1.. in raster order of their first voxel, background is 0
label(mask_array) ==
    LET S      == {v \in DOMAIN mask_array : mask_array[v] > 0}
        compOf == [v \in S |-> Grow(S, {v})]
        firsts == {FirstVoxel(compOf[v]) : v \in S}
        number == [f \in firsts |-> 1 + Cardinality({g \in firsts : RasterLess(g, f)})]
    IN  [labeled_array |-> [v \in DOMAIN mask_array |->
                               IF v \in S THEN number[FirstVoxel(compOf[v])] ELSE 0],
         num_features  |-> Cardinality(firsts)]

\* nd_sum(mask_array > 0, labeled_array, range(num_features + 1))
component_sizes(mask_array, labeled_array, num_features) ==
    [i \in 0..num_features |->
        Cardinality({v \in DOMAIN mask_array :
                        mask_array[v] > 0 /\ labeled_array[v] = i})]

\* component_size < threshold
TooSmallLe(component_size, threshold) == component_size <= threshold

TooSmall(component_size, threshold) == component_size < threshold

\* mask_size = mask_array > 0; small components are set to False
NoSizeFilter(mask_array, labeled_array, sizes, threshold) ==
    [v \in DOMAIN mask_array |-> mask_array[v] > 0]

mask_size(mask_array, labeled_array, sizes, threshold) ==
    [v \in DOMAIN mask_array |->
        /\ mask_array[v] > 0
        /\ ~ \E i \in DOMAIN sizes :
                TooSmall(sizes[i], threshold) /\ labeled_array[v] = i]

\* mask_array * mask_size (an integer array times a boolean array)
AddMask(mask_array, keep) ==
    [v \in DOMAIN mask_array |-> mask_array[v] + (IF keep[v] THEN 1 ELSE 0)]

MulMask(mask_array, keep) ==
    [v \in DOMAIN mask_array |-> mask_array[v] * (IF keep[v] THEN 1 ELSE 0)]

\* np.sum(mask_array > 0)
non_zero_voxel_count(mask_array) ==
    Cardinality({v \in DOMAIN mask_array : mask_array[v] > 0})

\* np.zeros_like(mask_array)
zeros_like(mask_array) == [v \in DOMAIN mask_array |-> 0]

\* if non_zero_voxel_count < threshold
BelowThresholdLe(count, threshold) == count <= threshold

BelowThreshold(count, threshold) == count < threshold

\* ------------------------------------------------------------ SimpleITK
\* spatial metadata of a freshly built image
DefaultMeta == [origin |-> 0, spacing |-> 1, direction |-> "identity"]

\* sitk.GetImageFromArray(arr)
GetImageFromArray(arr, shape) == [shape |-> shape, meta |-> DefaultMeta, arr |-> arr]

\* img.CopyInformation(src)
NoCopyInformation(img, src) == img

CopyInformation(img, src) == [img EXCEPT !.meta = src.meta]

Paths == {"p1", "p2"}

\* the path sitk.WriteImage is given
WritePath(mask_path) == mask_path

\* ------------------------------------------- has_label_above_threshold
\* the array and the value the function ends with, for the image read
CleanResult(mask, threshold) ==
    LET margin_padding == MARGIN_SCALING_FACTOR * threshold
        flushed == BorderFlush(mask.arr, mask.shape, margin_padding)
        lab     == label(flushed)
        sizes   == component_sizes(flushed, lab.labeled_array, lab.num_features)
        keep    == mask_size(flushed, lab.labeled_array, sizes, threshold)
        cleaned == MulMask(flushed, keep)
        count   == non_zero_voxel_count(cleaned)
    IN  IF BelowThreshold(count, threshold)
        THEN [img |-> CopyInformation(GetImageFromArray(zeros_like(cleaned), mask.shape), mask),
              ret |-> FALSE]
        ELSE [img |-> CopyInformation(GetImageFromArray(cleaned, mask.shape), mask),
              ret |-> TRUE]

\* one call: read mask_path, clean, write, return; `call` records it
has_label_above_threshold(mask_path, threshold) ==
    LET mask == files[mask_path]
        res  == CleanResult(mask, threshold)
    IN  /\ files' = [files EXCEPT ![WritePath(mask_path)] = res.img]
        /\ call' = << [path      |-> mask_path,
                       threshold |-> threshold,
                       input     |-> mask,
                       ret       |-> res.ret,
                       writes    |-> << WritePath(mask_path) >>,
                       again     |-> /\ call # << >>
                                     /\ call[1].path = mask_path
                                     /\ call[1].threshold = threshold
                                     /\ call[1].ret] >>

\* ------------------------------------------------------ input volumes
\* six voxels of the cube 6..7 x 6..7 x 6..7 that form a ring of face
\* neighbours (opposite voxels of the ring touch by a corner only, voxels two
\* apart by an edge only), one face neighbour of the ring at z = 5, and the
\* corner voxel of the volume
Cube == {<<z, y, x>> : z \in 6..7, y \in 6..7, x \in 6..7} \ {<<6, 7, 6>>, <<7, 6, 7>>}

Voxels == Cube \cup {<<5, 6, 6>>, <<0, 0, 0>>}

Shapes == {<<14, 14, 14>>, <<14, 14, 10>>}

Thresholds == -1..MaxThreshold

ScanMeta == [origin |-> -217, spacing |-> 3, direction |-> "flipped"]

InputLabel(v) == 1 + ((v[1] + v[2] + v[3]) % MaxLabel)

Volume(S, shape, meta) ==
    [shape |-> shape, meta |-> meta,
     arr |-> [v \in Voxels |-> IF v \in S THEN InputLabel(v) ELSE 0]]

IdleCtl == [state |-> "IDLE", idx |-> 0, accepted |-> "", outcome |-> FALSE]

NoCfg == [tracer |-> "", workflows |-> << >>, rules |-> << >>]

Init ==
    /\ \E S \in SUBSET Voxels, shape \in Shapes :
          files = [p \in Paths |->
                      IF p = "p1" THEN Volume(S, shape, ScanMeta)
                      ELSE Volume(Cube, <<14, 14, 14>>, DefaultMeta)]
    /\ call = << >>
    /\ cfg = NoCfg
    /\ ctl = IdleCtl
    /\ log = << >>

Clean ==
    /\ \E mask_path \in Paths, threshold \in Thresholds :
          has_label_above_threshold(mask_path, threshold)
    /\ UNCHANGED <<cfg, ctl, log>>

Next == Clean

Spec == Init /\ [][Next]_vars

\* ------------------------------------------------ configuration tables
\* TRACER_WORKFLOWS: the workflows of each tracer, in declared order
TRACER_WORKFLOWS == [fdg |-> << "pet_ct" >>, psma |-> << "pet" >>]

NoRule ==
    [rule_func |-> "absent", threshold |-> 0,
     action_on_true |-> "stop", action_on_false |-> "stop"]

\* RULES: (tracer, workflow) -> rule_func with its parameters, and the two actions
RULES_ContinueOnFalse ==
    [fdg |-> [pet_ct |-> [rule_func |-> "has_label_above_threshold", threshold |-> 10,
                          action_on_true |-> "stop", action_on_false |-> "continue"]]]

RULES ==
    [fdg |-> [pet_ct |-> [rule_func |-> "has_label_above_threshold", threshold |-> 10,
                          action_on_true |-> "stop", action_on_false |-> "stop"]]]

\* the shipped configuration of a tracer: its workflows and, per workflow,
\* its rule (NoRule where RULES has no entry)
ShippedCfg(tracer) ==
    [tracer    |-> tracer,
     workflows |-> TRACER_WORKFLOWS[tracer],
     rules     |-> [w \in {TRACER_WORKFLOWS[tracer][i] : i \in DOMAIN TRACER_WORKFLOWS[tracer]} |->
                       IF tracer \in DOMAIN RULES /\ w \in DOMAIN RULES[tracer]
                       THEN RULES[tracer][w] ELSE NoRule]]

\* other rule tables in the same format, for tracers of 1..MaxWorkflows workflows
Actions == {"stop", "continue"}

RuleChoices ==
    {NoRule} \cup
    {[rule_func |-> "has_label_above_threshold", threshold |-> 10,
      action_on_true |-> t, action_on_false |-> f] : t \in Actions, f \in Actions}

WorkflowNames == << "A", "B", "C", "D" >>

TestCfgs ==
    UNION {{[tracer |-> "test", workflows |-> SubSeq(WorkflowNames, 1, n), rules |-> r] :
               r \in [{WorkflowNames[i] : i \in 1..n} -> RuleChoices]} :
           n \in 1..MaxWorkflows}

Configs == {ShippedCfg("fdg"), ShippedCfg("psma")} \cup TestCfgs

\* ------------------------------------------------ inference collaborator
\* the path the labeled volume is produced at
OutPath == "p1"

\* a face-connected run of voxels inside the 30-voxel margin of a 64^3 volume
Snake(i) ==
    << 32, 30 + (i \div 4), IF (i \div 4) % 2 = 0 THEN 30 + (i % 4) ELSE 33 - (i % 4) >>

BlobSizes == {0} \cup ((MaxBlob - 2)..MaxBlob)

InferVolume(k) ==
    [shape |-> <<64, 64, 64>>, meta |-> ScanMeta,
     arr |-> [v \in {Snake(i) : i \in 0..(MaxBlob - 1)} |->
                 IF \E i \in 0..(k - 1) : Snake(i) = v THEN InputLabel(v) ELSE 0]]

\* ---------------------------------------------------- fallback controller
\* RuleTable.lookup
lookup(c, workflow) == c.rules[workflow]

\* RuleTable.action_for
action_for_swapped(rule, outcome) ==
    IF outcome THEN rule.action_on_false ELSE rule.action_on_true

action_for(rule, outcome) ==
    IF outcome THEN rule.action_on_true ELSE rule.action_on_false

\* "i exceeds the workflow count"
Exceeds(i, count) == i > count

Event(op, idx, outcome) == [op |-> op, idx |-> idx, outcome |-> outcome]

CtlInit ==
    /\ files = [p \in Paths |-> InferVolume(0)]
    /\ call = << >>
    /\ cfg \in Configs
    /\ ctl = [state |-> "PENDING", idx |-> 0, accepted |-> "", outcome |-> FALSE]
    /\ log = << >>

\* PENDING(i): EXHAUSTED when i exceeds the workflow count, else the
\* inference collaborator is invoked for workflows[i] (0-based); it
\* produces a volume at OutPath or fails, and fails for a workflow that
\* does not exist
Pending ==
    /\ ctl.state = "PENDING"
    /\ IF Exceeds(ctl.idx, Len(cfg.workflows))
       THEN /\ ctl' = [ctl EXCEPT !.state = "EXHAUSTED"]
            /\ UNCHANGED <<files, log>>
       ELSE /\ log' = Append(log, Event("infer", ctl.idx, FALSE))
            /\ \E k \in BlobSizes \cup {-1} :
                  IF k >= 0 /\ ctl.idx + 1 \in DOMAIN cfg.workflows
                  THEN /\ files' = [files EXCEPT ![OutPath] = InferVolume(k)]
                       /\ ctl' = [ctl EXCEPT !.state = "INFERRED"]
                  ELSE /\ ctl' = [ctl EXCEPT !.state = "FAILED"]
                       /\ UNCHANGED files
    /\ UNCHANGED <<call, cfg>>

\* after a successful inference: resolve the rule, evaluate it on the
\* produced volume, apply the action
Evaluate ==
    /\ ctl.state = "INFERRED"
    /\ LET workflow == cfg.workflows[ctl.idx + 1]
           rule     == lookup(cfg, workflow)
       IN  IF rule.rule_func = "absent"
           THEN /\ ctl' = [ctl EXCEPT !.state = "ACCEPTED", !.accepted = workflow,
                                      !.outcome = TRUE]
                /\ UNCHANGED <<files, call, log>>
           ELSE LET outcome == CleanResult(files[OutPath], rule.threshold).ret
                IN  /\ has_label_above_threshold(OutPath, rule.threshold)
                    /\ log' = Append(log, Event("eval", ctl.idx, outcome))
                    /\ IF action_for(rule, outcome) = "stop"
                       THEN ctl' = [ctl EXCEPT !.state = "ACCEPTED", !.accepted = workflow,
                                               !.outcome = outcome]
                       ELSE ctl' = [ctl EXCEPT !.state = "PENDING", !.idx = ctl.idx + 1]
    /\ UNCHANGED cfg

CtlNext == Pending \/ Evaluate

CtlSpec == CtlInit /\ [][CtlNext]_vars

\* ------------------------------------------- the statements' vocabulary
\* the latest completed call, and the file it was given, as it is now
Called == call # << >>
TheCall == call[1]
Persisted == files[TheCall.path]

FaceAdjacent(u, v) ==
    \E ax \in 1..3 :
        /\ Abs(u[ax] - v[ax]) = 1
        /\ \A bx \in (1..3) \ {ax} : u[bx] = v[bx]

TouchAdjacent(u, v) ==
    /\ u # v
    /\ Abs(u[1] - v[1]) <= 1 /\ Abs(u[2] - v[2]) <= 1 /\ Abs(u[3] - v[3]) <= 1

RECURSIVE FaceClosure(_, _)
FaceClosure(S, comp) ==
    LET more == {v \in S \ comp : \E u \in comp : FaceAdjacent(u, v)}
    IN  IF more = {} THEN comp ELSE FaceClosure(S, comp \cup more)

RECURSIVE TouchClosure(_, _)
TouchClosure(S, comp) ==
    LET more == {v \in S \ comp : \E u \in comp : TouchAdjacent(u, v)}
    IN  IF more = {} THEN comp ELSE TouchClosure(S, comp \cup more)

\* voxels at least `margin` away from both ends of every axis
Interior(c) ==
    LET margin == MARGIN_SCALING_FACTOR * c.threshold
    IN  {v \in DOMAIN c.input.arr :
            \A ax \in 1..3 : v[ax] >= margin /\ v[ax] + margin < c.input.shape[ax]}

\* non-zero voxels of the input, and those the border flush leaves
Support(c) == {v \in DOMAIN c.input.arr : c.input.arr[v] > 0}
Remaining(c) == Support(c) \cap Interior(c)

\* voxels of face-connected components of at least threshold voxels
Survivors(c) ==
    {v \in Remaining(c) : Cardinality(FaceClosure(Remaining(c), {v})) >= c.threshold}

FlushedInput(c) ==
    [v \in DOMAIN c.input.arr |-> IF v \in Interior(c) THEN c.input.arr[v] ELSE 0]

CleanedInput(c) ==
    [v \in DOMAIN c.input.arr |-> IF v \in Survivors(c) THEN c.input.arr[v] ELSE 0]

AllZero(arr) == \A v \in DOMAIN arr : arr[v] = 0

C2_Original ==
    (/\ Called
     /\ TheCall.threshold >= 1
     /\ Support(TheCall) # {}
     /\ \A v \in Support(TheCall) :
            LET comp == FaceClosure(Support(TheCall), {v})
            IN  /\ Cardinality(comp) >= TheCall.threshold
                /\ comp \cap Interior(TheCall) # {})
    => (TheCall.ret /\ Persisted.arr = FlushedInput(TheCall))

\* C2 amended: when the border-flushed volume is not empty and every
\* face-connected component of the border-flushed volume has at least
\* threshold voxels, clean returns true and the output is the
\* border-flushed input.
C2_FlushedComponents ==
    (/\ Called
     /\ TheCall.threshold >= 1
     /\ Remaining(TheCall) # {}
     /\ \A v \in Remaining(TheCall) :
            Cardinality(FaceClosure(Remaining(TheCall), {v})) >= TheCall.threshold)
    => (TheCall.ret /\ Persisted.arr = FlushedInput(TheCall))

\* every remaining component has exactly or more than threshold voxels, and
\* the flush removed part of the input
C2_Witness ==
    /\ Called
    /\ TheCall.threshold = 2
    /\ Remaining(TheCall) # {}
    /\ Remaining(TheCall) # Support(TheCall)
    /\ \A v \in Remaining(TheCall) :
            Cardinality(FaceClosure(Remaining(TheCall), {v})) >= TheCall.threshold
    /\ \E v \in Remaining(TheCall) :
            Cardinality(FaceClosure(Remaining(TheCall), {v})) = TheCall.threshold
    /\ TheCall.ret

\* C3: a call that repeats the previous call (same path, same threshold)
\* after that one returned true returns true and leaves the persisted
\* volume as the previous call left it.
C3_Idempotent ==
    (Called /\ TheCall.again) => (TheCall.ret /\ Persisted = TheCall.input)

C3_Witness ==
    /\ Called
    /\ TheCall.again
    /\ TheCall.threshold = 2
    /\ ~AllZero(Persisted.arr)

\* C4 as stated: clean never runs its border flush, filtering and persist
\* steps with a threshold <= 0.
C4_NonPositiveRejected ==
    Called => (TheCall.threshold > 0 \/ TheCall.writes = << >>)

\* C5: a completed call has written once, to the path it read, on either
\* outcome, and the written volume has the input's shape and spatial
\* metadata.
C5_OneWriteSameMeta ==
    Called =>
        /\ TheCall.writes = << TheCall.path >>
        /\ Persisted.meta = TheCall.input.meta
        /\ Persisted.shape = TheCall.input.shape

\* a rejected volume with non-default metadata, rewritten as zeros
C5_Witness ==
    /\ Called
    /\ ~TheCall.ret
    /\ TheCall.input.meta # DefaultMeta
    /\ Support(TheCall) # {}
    /\ AllZero(Persisted.arr)
    /\ Persisted.meta = TheCall.input.meta

Infers == {j \in DOMAIN log : log[j].op = "infer"}
Evals == {j \in DOMAIN log : log[j].op = "eval"}

RuleAt(i) == lookup(cfg, cfg.workflows[i + 1])

HasRule(i) == RuleAt(i).rule_func # "absent"

\* C6: workflows [A, B], A's rule false with action_on_false = continue,
\* B's rule true with action_on_true = stop: inference ran for A, then,
\* after A's rule was evaluated, for B, twice in all, and the controller
\* is in ACCEPTED(B) with outcome true.
C6_FallbackOrder ==
    (/\ Len(cfg.workflows) = 2
     /\ HasRule(0) /\ RuleAt(0).action_on_false = "continue"
     /\ \E j \in Evals : log[j] = Event("eval", 0, FALSE))
    => /\ \A j \in Infers : log[j].idx = 1 =>
              \E i \in Evals : i < j /\ log[i].idx = 0
       /\ (/\ HasRule(1) /\ RuleAt(1).action_on_true = "stop"
           /\ \E j \in Evals : log[j] = Event("eval", 1, TRUE))
          => /\ ctl.state = "ACCEPTED"
             /\ ctl.accepted = cfg.workflows[2]
             /\ ctl.outcome = TRUE
             /\ log = << Event("infer", 0, FALSE), Event("eval", 0, FALSE),
                         Event("infer", 1, FALSE), Event("eval", 1, TRUE) >>

C6_Witness ==
    /\ Len(cfg.workflows) = 2
    /\ RuleAt(0).action_on_false = "continue"
    /\ RuleAt(1).action_on_true = "stop"
    /\ ctl.state = "ACCEPTED"
    /\ ctl.accepted = "B"
    /\ ctl.outcome
    /\ Len(log) = 4
    /\ log[2] = Event("eval", 0, FALSE)

SingleStop ==
    /\ Len(cfg.workflows) = 1
    /\ HasRule(0)
    /\ RuleAt(0).action_on_true = "stop"
    /\ RuleAt(0).action_on_false = "stop"

\* one inference call at most, and once the rule is evaluated the controller
\* is in ACCEPTED(first workflow) and carries the rule's outcome
OneCallAccepted ==
    /\ Cardinality(Infers) <= 1
    /\ Evals # {} =>
          /\ ctl.state = "ACCEPTED"
          /\ ctl.accepted = cfg.workflows[1]
          /\ log = << Event("infer", 0, FALSE), Event("eval", 0, ctl.outcome) >>
          /\ ctl.outcome = call[1].ret

\* C7: a single workflow whose rule stops on true and on false, and the
\* shipped fdg tracer (workflow pet_ct): at most one inference call, and
\* once the rule is evaluated the controller is in ACCEPTED(A) and
\* carries the rule's outcome, true or false.
C7_SingleStop ==
    /\ SingleStop => OneCallAccepted
    /\ cfg.tracer = "fdg" => (cfg.workflows = << "pet_ct" >> /\ OneCallAccepted)

\* the shipped fdg workflow accepted although its rule rejected the volume
C7_Witness ==
    /\ cfg.tracer = "fdg"
    /\ ctl.state = "ACCEPTED"
    /\ ctl.accepted = "pet_ct"
    /\ ~ctl.outcome
    /\ Cardinality(Infers) = 1

AllContinued ==
    /\ \A i \in 0..(Len(cfg.workflows) - 1) :
          /\ HasRule(i)
          /\ \E j \in Evals :
                /\ log[j].idx = i
                /\ action_for(RuleAt(i), log[j].outcome) = "continue"

\* C8 as stated: inference is never invoked for an index outside the
\* workflow list, and when every workflow resolved to continue there were
\* exactly len(workflows) inference calls and the controller is exhausted
\* (or about to be).
C8_ExhaustedAfterAll ==
    /\ \A j \in Infers : log[j].idx < Len(cfg.workflows)
    /\ AllContinued =>
          /\ Cardinality(Infers) = Len(cfg.workflows)
          /\ ctl.state \in {"PENDING", "EXHAUSTED"}

====
